---- MODULE Spec2Model ----
(***************************************************************************)
(* Three-stage batch video pipeline (transcribe.py, genai.py, video_cut.py *)
(* over utils.py).  The file system is the only shared state; every stage  *)
(* is an orchestrator that globs an input directory, filters it, submits   *)
(* one worker call per file to a process pool and prints the results.      *)
(*                                                                         *)
(* fs maps every file path the pipeline names to its content ("none" when  *)
(* the file is absent).  Directories are not files: they appear only in    *)
(* the sets of paths a worker touched.                                     *)
(***************************************************************************)
EXTENDS Integers, Sequences, FiniteSets, TLC

VARIABLES fs, stage, mode, config, futures, seen, wk, last, cached, printed, finished, orch,
          nruns, faults, unit

vars == <<fs, stage, mode, config, futures, seen, wk, last, cached, printed, finished, orch,
         nruns, faults, unit>>

\* everything but unit, which holds one call of a function of utils.py or of a filter
\* expression on its own: the function, its arguments and what it returned
pipeline == <<fs, stage, mode, config, futures, seen, wk, last, cached, printed, finished, orch,
             nruns, faults>>

\* ------------------------------------------------------------------ bounds
NumVideos == 2
MaxRuns == 2
\* how many calls of a behaviour meet a failing transcoder, engine, library or OS call
MaxFaults == 2

Stems == 1..NumVideos

\* ------------------------------------------------------- program constants
\* for _ in range(3): the filtered-audio swap is attempted at most 3 times
SwapRetries == 3
\* utils.process_with_gemini(transcript_json_path, config): two parameters
ProcessWithGeminiParams == 2
\* genai.process_file passes (str(json_path), config, prompt_text)
GenaiCallArgs == 3
\* Stage2Wrapper.process passes (str(json_path), self.config)
WrapperCallArgs == 2

\* ------------------------------------------------------------- file names
None == "none"

InputKinds == {"mp4", "wav", "cleanwav", "json", "refined"}
OtherKinds == {"out", "pmp4", "pjson", "prefined"}

\* <<kind, stem>>: <stem>.mp4, <stem>.wav, <stem>.clean.wav, <stem>.json,
\* <stem>_refined.json in the input directory; output/<LANG>/<stem>_.._refined.mp4;
\* processed/<stem>/<stem>.mp4, .json, _refined.json
Paths == (InputKinds \cup OtherKinds) \X Stems

\* the renderer's temp_audiofile='temp-audio.m4a', relative to the working directory
TempAudio == <<"tempaudio", 0>>
\* processed/<stem>/
ProcessedDir(s) == <<"pdir", s>>

P(kind, s) == <<kind, s>>

Exists(f, p) == f[p] # None

\* transcript documents the speech engine can produce
Docs == {"docA", "docB"}
\* a cache file that does not parse, or parses without a "language" key
Corrupt == "corrupt"

\* what the generative engine can answer
\*   obj       a single object with segments that survive the cutter
\*   noseg     a single object whose segments are all dropped by the cutter
\*   list      a non-empty sequence whose first element is such an object
\*   emptylist an empty sequence
RefinedDocs == {"obj", "noseg", "list", "emptylist"}
GeminiResponses == RefinedDocs \cup {"unparseable", "apierror"}

\* ------------------------------------------------------------ result strings
S1_FailedExtract == "Failed extract"
S1_FailedTranscribe == "Failed transcribe"
S1_Success == "Success: Transcript saved"
S1_Error == "Error"
S2_NotFound == "Error: File not found"
S2_Success == "Success: Refined segments saved"
S2_Error == "Error in Stage 2"
S3_Missing == "Missing refined JSON"
S3_SuccessMoved == "Success! Video cut & source files moved"
S3_CutNotMoved == "Success (Cut), but failed to move files"
S3_CuttingFailed == "Cutting failed"
S3_Error == "Error in Stage 3"
\* not a string: the exception left the worker function
Raised == "RAISED"

ErrorStrings == {S1_FailedExtract, S1_FailedTranscribe, S1_Error, S2_NotFound, S2_Error,
                 S3_Missing, S3_CuttingFailed, S3_Error}
SuccessStrings == {S1_Success, S2_Success, S3_SuccessMoved, S3_CutNotMoved}

\* ---------------------------------------------------------------- helpers
Pos(q, x) == IF \E i \in 1..Len(q) : q[i] = x
             THEN CHOOSE i \in 1..Len(q) : q[i] = x
             ELSE 0

Range(q) == {q[i] : i \in 1..Len(q)}

\* every order in which a directory listing can return the files of S
Orders(S) == {q \in [1..Cardinality(S) -> S] : \A i, j \in 1..Cardinality(S) : q[i] = q[j] => i = j}

\* ------------------------------------------------------------ eligibility
\* A file name is the sequence of its parts: the stem, then its suffixes.
StemNames == <<"a", "b", "c", "d">>

\* the name of an input-directory path
FileName(p) ==
    LET stem == StemNames[p[2]] IN
    CASE p[1] = "mp4"      -> <<stem, ".mp4">>
      [] p[1] = "wav"      -> <<stem, ".wav">>
      [] p[1] = "cleanwav" -> <<stem, ".clean", ".wav">>
      [] p[1] = "json"     -> <<stem, ".json">>
      [] OTHER             -> <<stem, "_refined", ".json">>

\* name.endswith(suffix)
EndsWith(name, suffix) ==
    /\ Len(name) >= Len(suffix)
    /\ SubSeq(name, Len(name) - Len(suffix) + 1, Len(name)) = suffix

\* "_refined.json"
RefinedSuffix == <<"_refined", ".json">>

\* glob("*<ext>") over a set of names
GlobNames(names, ext) == {n \in names : EndsWith(n, <<ext>>)}

\* a Stage-2 filter that took every *.json
Stage2Eligible_All(names) == GlobNames(names, ".json")

\* genai.py: all_json = list(input_path.glob("*.json"))
\*           files = [f for f in all_json if not f.name.endswith("_refined.json")]
Stage2Eligible(names) == {n \in GlobNames(names, ".json") : ~EndsWith(n, RefinedSuffix)}

\* input_path.glob("*<ext>"): the input-directory files with that extension
Glob(f, ext) ==
    {p \in InputKinds \X Stems : Exists(f, p) /\ EndsWith(FileName(p), <<ext>>)}

\* f.name.endswith("_refined.json")
EndsWithRefinedJson(p) == EndsWith(FileName(p), RefinedSuffix)

\* a Stage 1 that skipped the videos whose transcript exists
Stage1Files_SkipTranscribed(f) == {v \in Glob(f, ".mp4") : ~Exists(f, P("json", v[2]))}

\* transcribe.py: files = list(input_path.glob("*.mp4")), no further filter
Stage1Files(f) == Glob(f, ".mp4")

\* genai.py: files = [f for f in all_json if not f.name.endswith("_refined.json")]
Stage2Files(f) == {p \in Glob(f, ".json") : ~EndsWithRefinedJson(p)}

\* a Stage 3 that submitted every video
Stage3Files_NoFilter(f) == Glob(f, ".mp4")

\* video_cut.py: files = [v for v in all_videos if v.with_name(f"{v.stem}_refined.json").exists()]
Stage3Files(f) == {v \in Glob(f, ".mp4") : Exists(f, P("refined", v[2]))}

StageFiles(st, f) ==
    CASE st = 1 -> Stage1Files(f)
      [] st = 2 -> Stage2Files(f)
      [] OTHER  -> Stage3Files(f)

\* ProcessPoolExecutor(max_workers=args.workers): the default of each entry point
Workers(st) == IF st = 2 THEN 2 ELSE 4

\* ----------------------------------------------------------- worker records
\* wk[s] is the worker call on the file of stem s; last is the call that returned most
\* recently, with everything it did (stem 0: none yet in this run).
\* pc       where the worker call stands
\* result   the string it returned (None until it returns)
\* touched  the paths it wrote, deleted, renamed or created during the call
\* ret      transcribe_audio's returned document
\* loaded   the speech model was loaded
\* invoked  the speech or generative engine was called
\* client   a generative-engine client was created
\* resp     the answer the generative engine holds for this request
\* doc      the refined document Stage 3 loaded
\* cutter   trim_video_from_segments was called
\* rendered the output video was written
Fresh(pc) == [pc |-> pc, result |-> None, touched |-> {}, ret |-> None, loaded |-> FALSE,
              invoked |-> FALSE, client |-> FALSE, resp |-> None, doc |-> None,
              cutter |-> FALSE, rendered |-> FALSE]

Running(w) == w.pc \notin {"idle", "queued", "done"}

Return(w, r) == [w EXCEPT !.pc = "done", !.result = r]

\* what the pool keeps of a call that returned: its result
Settled(w) == [Fresh("done") EXCEPT !.result = w.result]

NoCall == [stem |-> 0, call |-> Fresh("idle")]

\* no function was called on its own
NoUnit == [fn |-> "none"]

\* cached[s]: what the latest transcribe_audio call on <stem>.wav returned, how many
\* calls in a row (counted up to two) returned the cache, and what the first of them
\* returned
NoReturn == [ret |-> None, hits |-> 0, first |-> None]

\* the video and the two JSON files of a stem
InputSources == {"mp4", "json", "refined"}

\* what the input directory holds of every stem
Listing(f) == [s \in Stems |-> [k \in InputSources |-> f[P(k, s)]]]

\* ------------------------------------------------------------------- Init
\* what a video of the input directory can start with: nothing beside it, a damaged
\* transcript cache (a crash while it was written), or a transcript and a refined document
InitLevels == {"raw", "corruptcache", "refined"}

InitFs(level) ==
    [p \in Paths |->
        CASE p[1] = "mp4" -> "video"
          [] p[1] = "json" -> (CASE level[p[2]] = "raw" -> None
                                 [] level[p[2]] = "corruptcache" -> Corrupt
                                 [] OTHER -> "docA")
          [] p[1] = "refined" -> (IF level[p[2]] = "refined" THEN "obj" ELSE None)
          [] OTHER -> None]

Init ==
    /\ \E level \in [Stems -> InitLevels] : fs = InitFs(level) /\ seen = Listing(InitFs(level))
    /\ stage = 0
    /\ mode = "orchestrator"
    /\ config = [gemini_api_key |-> "valid", enable_audio_cleaning |-> FALSE]
    /\ futures = << >>
    /\ wk = [s \in Stems |-> Fresh("idle")]
    /\ last = NoCall
    /\ cached = [s \in Stems |-> NoReturn]
    /\ printed = << >>
    /\ finished = << >>
    /\ orch = "idle"
    /\ nruns = 0
    /\ faults = 0
    /\ unit = NoUnit

\* ----------------------------------------------------------- orchestrator
Modes == {"orchestrator", "script_call", "wrapper_call"}

\* config.json as the workers of a run load it; an option the stage never reads
\* keeps its default
Configs(st) ==
    {c \in [gemini_api_key : {"valid", "placeholder", "missing"}, enable_audio_cleaning : BOOLEAN] :
        /\ st # 2 => c.gemini_api_key = "valid"
        /\ st # 1 => c.enable_audio_cleaning = FALSE}

\* One run: an entry point globs and filters the input directory and submits every
\* eligible file (mode "orchestrator"), or a worker function is called on one path
\* directly: <stage>.wrapper_process ("script_call") or utils.run_stage<N>_worker
\* ("wrapper_call").  An empty eligible set prints a message and exits.
StartRun(st, m, cfg, order) ==
    /\ orch \in {"idle", "done", "crashed"}
    /\ nruns < MaxRuns
    /\ IF m = "orchestrator"
       THEN order \in Orders({p[2] : p \in StageFiles(st, fs)})
       ELSE \E s \in Stems : order = <<s>>
    /\ stage' = st
    /\ mode' = m
    /\ config' = cfg
    /\ futures' = order
    /\ seen' = Listing(fs)
    /\ wk' = [s \in Stems |-> IF s \in Range(order) THEN Fresh("queued") ELSE Fresh("idle")]
    /\ last' = NoCall
    /\ printed' = << >>
    /\ UNCHANGED <<cached, faults, unit>>
    /\ finished' = << >>
    /\ orch' = IF order = << >> THEN "done" ELSE "collecting"
    /\ nruns' = nruns + 1
    /\ UNCHANGED fs

FirstPc(st) == CASE st = 1 -> "extract" [] st = 2 -> "refine" [] OTHER -> "begin"

\* the pool hands the queued calls to its idle processes in submission order
StartWorker(s) ==
    /\ orch = "collecting"
    /\ wk[s].pc = "queued"
    /\ \A i \in 1..Len(futures) : i < Pos(futures, s) => wk[futures[i]].pc # "queued"
    /\ Cardinality({t \in Stems : Running(wk[t])}) < Workers(stage)
    /\ wk' = [wk EXCEPT ![s].pc = FirstPc(stage)]
    /\ UNCHANGED <<fs, stage, mode, config, futures, seen, last, cached, printed, finished, orch,
                   nruns, faults, unit>>

\* for future in tqdm(futures, ...): tqdm.write(future.result())
\* futures is a dict: it is walked in insertion order, and result() blocks until that
\* future is done and re-raises what the worker raised
WriteResult ==
    /\ orch = "collecting"
    /\ Len(printed) < Len(futures)
    /\ LET s == futures[Len(printed) + 1] IN
        /\ wk[s].pc = "done"
        /\ IF wk[s].result = Raised
           THEN /\ orch' = "crashed"
                /\ UNCHANGED printed
           ELSE /\ printed' = Append(printed, s)
                /\ orch' = IF Len(printed) + 1 = Len(futures) THEN "done" ELSE "collecting"
    /\ UNCHANGED <<fs, stage, mode, config, futures, seen, wk, last, cached, finished, nruns, faults,
                   unit>>

\* one step of the worker call on s: it leaves the worker as w and the files as f; a
\* call that returns is recorded in completion order
Step(s, w, f) ==
    /\ wk' = [wk EXCEPT ![s] = IF w.pc = "done" THEN Settled(w) ELSE w]
    /\ last' = IF w.pc = "done" THEN [stem |-> s, call |-> w] ELSE last
    /\ fs' = f
    /\ finished' = IF w.pc = "done" THEN Append(finished, s) ELSE finished
    /\ UNCHANGED <<stage, mode, config, futures, seen, printed, orch, nruns, unit>>

\* a step that is not a transcribe_audio call
StepOther(s, w, f) == Step(s, w, f) /\ UNCHANGED cached

\* the environment of a step: failing costs one of the MaxFaults failures
Env(failing) ==
    /\ failing => faults < MaxFaults
    /\ faults' = IF failing THEN faults + 1 ELSE faults

\* ---------------------------------------------------------------- Stage 1
Touch(w, ps) == [w EXCEPT !.touched = @ \cup ps]

SwapOutcomes == {"ok", "locked_remove", "locked_rename", "oserror"}

\* utils.extract_audio, the retry loop: up to SwapRetries times, remove the audio if
\* it exists and rename the filtered file over it; a PermissionError ("locked") moves
\* on to the next attempt, success leaves the loop, any other OSError propagates.
\* env[n] is what the n-th attempt meets.  Yields the files, whether it raised and how
\* many attempts were made.
RECURSIVE SwapLoop(_, _, _, _)
SwapLoop(f, s, env, n) ==
    IF n > SwapRetries THEN [fs |-> f, exc |-> FALSE, tries |-> n - 1]
    ELSE LET wav == P("wav", s)
             clean == P("cleanwav", s)
             removed == [f EXCEPT ![wav] = None]
         IN CASE env[n] = "oserror" -> [fs |-> f, exc |-> TRUE, tries |-> n]
              [] env[n] = "locked_remove" /\ Exists(f, wav) -> SwapLoop(f, s, env, n + 1)
              [] env[n] = "locked_rename" -> SwapLoop(removed, s, env, n + 1)
              [] OTHER -> IF Exists(f, clean)
                          THEN [fs |-> [removed EXCEPT ![wav] = f[clean], ![clean] = None],
                                exc |-> FALSE, tries |-> n]
                          ELSE [fs |-> removed, exc |-> TRUE, tries |-> n]

\* utils.extract_audio(video_path, audio_path, enable_cleaning): "true", "false" or
\* "exc" (an exception that is not ffmpeg.Error), and the files it leaves.
\* env.extract / env.filter: the two transcoder runs succeed; env.swap: the attempts.
ExtractAudio(f, s, enable_cleaning, env) ==
    LET wav == P("wav", s)
        clean == P("cleanwav", s)
        extracted == [f EXCEPT ![wav] = "raw"]
        filtered == [extracted EXCEPT ![clean] = "clean"]
    IN  IF ~(Exists(f, P("mp4", s)) /\ env.extract)
        THEN [ok |-> "false", fs |-> f, touched |-> {wav}, tries |-> 0]
        ELSE IF ~enable_cleaning
        THEN [ok |-> "true", fs |-> extracted, touched |-> {wav}, tries |-> 0]
        ELSE IF ~env.filter
        THEN [ok |-> "true", fs |-> extracted, touched |-> {wav, clean}, tries |-> 0]
        ELSE LET r == SwapLoop(filtered, s, env.swap, 1)
             IN [ok |-> IF r.exc THEN "exc" ELSE "true", fs |-> r.fs, touched |-> {wav, clean},
                 tries |-> r.tries]

\* the environments that differ in what extract_audio meets: without cleaning only the
\* first transcoder run is made, and no attempt follows one that left the loop
ExtractEnvs(enable_cleaning) ==
    {e \in [extract : BOOLEAN, filter : BOOLEAN, swap : [1..SwapRetries -> SwapOutcomes]] :
        /\ ~(enable_cleaning /\ e.extract) => e.filter
        /\ ~(enable_cleaning /\ e.extract /\ e.filter) => \A n \in 1..SwapRetries : e.swap[n] = "ok"
        /\ \A n \in 1..SwapRetries - 1 : e.swap[n] \in {"ok", "oserror"} => e.swap[n + 1] = "ok"}

\* transcribe.process_file / Stage1Wrapper.process: except Exception as e: return f"Error: {e}"
Stage1Except == S1_Error

\* step 1 of transcribe.process_file and Stage1Wrapper.process
S1Extract(s, env) ==
    /\ stage = 1
    /\ wk[s].pc = "extract"
    /\ Env(~(env.extract /\ env.filter /\ \A n \in 1..SwapRetries : env.swap[n] = "ok"))
    /\ LET r == ExtractAudio(fs, s, config.enable_audio_cleaning, env)
           w == Touch(wk[s], r.touched)
       IN CASE r.ok = "true"  -> StepOther(s, [w EXCEPT !.pc = "transcribe"], r.fs)
            [] r.ok = "false" -> StepOther(s, Return(w, S1_FailedExtract), r.fs)
            [] OTHER          -> StepOther(s, Return(w, Stage1Except), r.fs)

\* --- the hallucination filter.  A text is the sequence of its characters.
\* the two glyphs of garbage_pattern = r'[<d with dot below><omicron with psili>\s]+'
GarbageGlyphs == {"d-dot-below", "omicron-psili"}
\* \s
Whitespace == {"space", "newline"}

\* re.fullmatch(garbage_pattern, text) from character n on: one or more characters of
\* the class, up to the end of the text
RECURSIVE FullMatchFrom(_, _)
FullMatchFrom(text, n) ==
    /\ n <= Len(text)
    /\ text[n] \in GarbageGlyphs \cup Whitespace
    /\ n = Len(text) \/ FullMatchFrom(text, n + 1)

\* a filter that matched the pattern at the start of the text only (re.match)
FilterHallucinations_Match(text) ==
    IF Len(text) = 0 THEN << >>
    ELSE IF text[1] \in GarbageGlyphs \cup Whitespace THEN << >>
    ELSE text

\* utils.filter_hallucinations(text)
FilterHallucinations(text) ==
    IF Len(text) = 0 THEN << >>
    ELSE IF FullMatchFrom(text, 1) THEN << >>
    ELSE text

\* a cache check that took whatever the file holds
ValidCache_AnyContent(c) == c # None

\* json.load of the cache and data["language"] both succeed
ValidCache(c) == c \in Docs

\* model.transcribe(audio_path, ...): the transcript of the unfiltered audio and that
\* of the filtered audio
Whisper(audio) == IF audio = "clean" THEN "docB" ELSE "docA"

\* a transcribe_audio that never looked at the cache
TranscribeAudio_IgnoreCache(f, s, env) ==
    LET cache == P("json", s)
        miss == [exc |-> TRUE, ret |-> None, fs |-> f, loaded |-> FALSE, invoked |-> FALSE,
                 touched |-> {}]
    IN  IF ~env.load THEN miss
        ELSE IF ~(Exists(f, P("wav", s)) /\ env.engine)
        THEN [miss EXCEPT !.loaded = TRUE, !.invoked = TRUE]
        ELSE [exc |-> FALSE, ret |-> Whisper(f[P("wav", s)]),
              fs |-> [f EXCEPT ![cache] = Whisper(f[P("wav", s)])],
              loaded |-> TRUE, invoked |-> TRUE, touched |-> {cache}]

\* utils.transcribe_audio(audio_path, model_size): a readable cache is returned as it
\* is; otherwise the model is loaded, the audio transcribed and the result written to
\* the cache.  Every exception is logged and re-raised.
\* env.load / env.engine: loading and transcribing succeed; env.write: "ok",
\* "open_failed" or "dump_failed" (the file was truncated).
TranscribeAudio(f, s, env) ==
    LET cache == P("json", s)
        miss == [exc |-> TRUE, ret |-> None, fs |-> f, loaded |-> FALSE, invoked |-> FALSE,
                 touched |-> {}]
    IN  IF Exists(f, cache) /\ ValidCache(f[cache])
        THEN [miss EXCEPT !.exc = FALSE, !.ret = f[cache]]
        ELSE IF ~env.load THEN miss
        ELSE IF ~(Exists(f, P("wav", s)) /\ env.engine)
        THEN [miss EXCEPT !.loaded = TRUE, !.invoked = TRUE]
        ELSE CASE env.write = "open_failed" ->
                    [miss EXCEPT !.loaded = TRUE, !.invoked = TRUE]
               [] env.write = "dump_failed" ->
                    [miss EXCEPT !.loaded = TRUE, !.invoked = TRUE,
                                 !.fs = [f EXCEPT ![cache] = Corrupt], !.touched = {cache}]
               [] OTHER ->
                    [exc |-> FALSE, ret |-> Whisper(f[P("wav", s)]),
                     fs |-> [f EXCEPT ![cache] = Whisper(f[P("wav", s)])],
                     loaded |-> TRUE, invoked |-> TRUE, touched |-> {cache}]

TranscribeEnvs == [load : BOOLEAN, engine : BOOLEAN, write : {"ok", "open_failed", "dump_failed"}]

\* step 2: the inner try around transcribe_audio returns "Failed transcribe" at once
S1Transcribe(s, env) ==
    /\ stage = 1
    /\ wk[s].pc = "transcribe"
    /\ Env(~(env.load /\ env.engine /\ env.write = "ok"))
    /\ LET r == TranscribeAudio(fs, s, env)
           w == [Touch(wk[s], r.touched) EXCEPT !.ret = r.ret, !.loaded = r.loaded,
                                                !.invoked = r.invoked]
           hit == ~r.exc /\ ~r.invoked
       IN /\ IF r.exc
             THEN Step(s, Return(w, S1_FailedTranscribe), r.fs)
             ELSE Step(s, [w EXCEPT !.pc = "cleanup"], r.fs)
          /\ cached' = [cached EXCEPT ![s] =
                            [ret |-> r.ret,
                             hits |-> IF ~hit THEN 0 ELSE IF @.hits = 0 THEN 1 ELSE 2,
                             first |-> IF ~hit THEN None ELSE IF @.hits = 0 THEN r.ret ELSE @.first]]

\* step 3: if temp_audio.exists(): try: os.remove(temp_audio) except: pass
S1Cleanup(s, removable) ==
    /\ stage = 1
    /\ wk[s].pc = "cleanup"
    /\ Env(~removable)
    /\ LET wav == P("wav", s) IN
        IF Exists(fs, wav)
        THEN StepOther(s, Return(Touch(wk[s], {wav}), S1_Success),
                  IF removable THEN [fs EXCEPT ![wav] = None] ELSE fs)
        ELSE StepOther(s, Return(wk[s], S1_Success), fs)

\* ---------------------------------------------------------------- Stage 2
\* a credential check that forgot the placeholder
CredentialRejected_MissingOnly(api_key) == api_key = "missing"

\* api_key = config.get("gemini_api_key"); not api_key or api_key == "YOUR_API_KEY_HERE"
CredentialRejected(api_key) == api_key \in {"missing", "placeholder"}

\* json.load(f) of the transcript and transcript_data.get("segments", []) succeed
ReadableTranscript(c) == c \in Docs

\* utils.process_with_gemini called with nargs positional arguments.  A call whose
\* arguments do not fit the two parameters raises TypeError before the body runs.
\* Otherwise: credential check, client, read the transcript, call the engine, parse the
\* answer, write <stem>_refined.json, return the parsed answer.  Everything raised
\* propagates.  resp is the engine's answer to the request.
ProcessWithGemini(f, s, nargs, api_key, resp) ==
    LET refined == P("refined", s)
        raise == [exc |-> TRUE, data |-> None, fs |-> f, client |-> FALSE, invoked |-> FALSE,
                  touched |-> {}]
    IN  IF nargs # ProcessWithGeminiParams THEN raise
        ELSE IF CredentialRejected(api_key) THEN raise
        ELSE IF ~ReadableTranscript(f[P("json", s)]) THEN [raise EXCEPT !.client = TRUE]
        ELSE IF resp \in {"apierror", "unparseable"}
        THEN [raise EXCEPT !.client = TRUE, !.invoked = TRUE]
        ELSE [exc |-> FALSE, data |-> resp, fs |-> [f EXCEPT ![refined] = resp],
              client |-> TRUE, invoked |-> TRUE, touched |-> {refined}]

\* refined_data.get('title') in the Success string: a sequence has no .get
HasGet(data) == data \in {"obj", "noseg"}

\* genai.process_file(json_path, config): reads the transcript and builds the prompt
\* itself, then calls utils.process_with_gemini(str(json_path), config, prompt_text)
GenaiProcessFile(f, s, api_key, resp) ==
    LET stay == [result |-> S2_Error, fs |-> f, client |-> FALSE, invoked |-> FALSE,
                 touched |-> {}]
    IN  IF ~Exists(f, P("json", s)) THEN [stay EXCEPT !.result = S2_NotFound]
        ELSE IF ~ReadableTranscript(f[P("json", s)]) THEN stay
        ELSE LET r == ProcessWithGemini(f, s, GenaiCallArgs, api_key, resp)
             IN [result |-> IF ~r.exc /\ HasGet(r.data) THEN S2_Success ELSE S2_Error,
                 fs |-> r.fs, client |-> r.client, invoked |-> r.invoked, touched |-> r.touched]

\* Stage2Wrapper.process(json_path): calls process_with_gemini(str(json_path), self.config)
Stage2WrapperProcess(f, s, api_key, resp) ==
    IF ~Exists(f, P("json", s))
    THEN [result |-> S2_NotFound, fs |-> f, client |-> FALSE, invoked |-> FALSE, touched |-> {}]
    ELSE LET r == ProcessWithGemini(f, s, WrapperCallArgs, api_key, resp)
         IN [result |-> IF ~r.exc /\ HasGet(r.data) THEN S2_Success ELSE S2_Error,
             fs |-> r.fs, client |-> r.client, invoked |-> r.invoked, touched |-> r.touched]

\* the Stage-2 worker call
S2Refine(s, resp) ==
    /\ stage = 2
    /\ wk[s].pc = "refine"
    /\ Env(resp \notin RefinedDocs)
    /\ LET r == IF mode = "wrapper_call"
                THEN Stage2WrapperProcess(fs, s, config.gemini_api_key, resp)
                ELSE GenaiProcessFile(fs, s, config.gemini_api_key, resp)
           w == [Touch(wk[s], r.touched) EXCEPT !.resp = resp, !.client = r.client,
                                                !.invoked = r.invoked]
       IN StepOther(s, Return(w, r.result), r.fs)

\* ---------------------------------------------------------------- Stage 3
\* video_cut.process_file: if isinstance(refined_data, list):
\*     refined_data = refined_data[0] if refined_data else {}
\* "empty" is the document without segments
NormalizeList(data) ==
    CASE data = "list" -> "obj"
      [] data = "emptylist" -> "empty"
      [] OTHER -> data

\* Stage3Wrapper.process has no such step
NoNormalize(data) == data

\* a Stage-3 worker whose outer handler let the exception through
Stage3Reraise == Raised

\* video_cut.process_file / Stage3Wrapper.process: except Exception as e:
\*     return f"Error in Stage 3 for {video_path.name}: {str(e)}"
Stage3Except == S3_Error

\* the worker up to the cutter: the refined-JSON check, json.load, the language and
\* title lookups, lang_dir.mkdir
S3Begin(s, mkdir_ok) ==
    /\ stage = 3
    /\ wk[s].pc = "begin"
    /\ Env(~mkdir_ok)
    /\ LET refined == P("refined", s)
           data == IF mode = "wrapper_call" THEN NoNormalize(fs[refined])
                   ELSE NormalizeList(fs[refined])
       IN  IF ~Exists(fs, refined) THEN StepOther(s, Return(wk[s], S3_Missing), fs)
           ELSE IF fs[refined] = Corrupt \/ data \in {"list", "emptylist"} \/ ~mkdir_ok
           THEN StepOther(s, Return(wk[s], Stage3Except), fs)
           ELSE StepOther(s, [wk[s] EXCEPT !.pc = "cut", !.doc = data], fs)

\* --- the Segment Cutter.  Times are in tenths of a second, exact.
\* (end - start) < 0.5
MinDuration == 5
\* vfx.CrossFadeIn(0.5)
CrossFade == 5

\* a segment is a function from the bounds it has ("start", "end") to their times;
\* seg.get(k) is None for a bound it lacks
HasBound(seg, k) == k \in DOMAIN seg

Seg(a, b) == [start |-> a, end |-> b]
OnlyStart(a) == [start |-> a]
OnlyEnd(b) == [end |-> b]
NoBounds == [k \in {} |-> 0]

\* a drop rule that also dropped the segments of exactly the floor duration
Dropped_AtFloor(seg) ==
    \/ ~HasBound(seg, "start") \/ ~HasBound(seg, "end")
    \/ seg["end"] - seg["start"] <= MinDuration

\* if start is None or end is None or (end - start) < 0.5: continue
Dropped(seg) ==
    \/ ~HasBound(seg, "start") \/ ~HasBound(seg, "end")
    \/ seg["end"] - seg["start"] < MinDuration

\* a loop that kept every segment with both bounds, whatever its duration
LoopBody_KeepShort(clips, segments, n) ==
    LET seg == segments[n]
        i == n - 1
    IN  IF ~HasBound(seg, "start") \/ ~HasBound(seg, "end") THEN clips
        ELSE Append(clips, [start |-> seg["start"], end |-> seg["end"],
                            fade |-> IF i > 0 THEN CrossFade ELSE 0, closed |-> FALSE])

\* one pass of "for i, seg in enumerate(segments)": n is the position of seg counted
\* from 1, i = n - 1 the index enumerate gives it.  A kept segment becomes a sub-clip,
\* faded in when i > 0, and is appended to clips.
LoopBody(clips, segments, n) ==
    LET seg == segments[n]
        i == n - 1
    IN  IF Dropped(seg) THEN clips
        ELSE Append(clips, [start |-> seg["start"], end |-> seg["end"],
                            fade |-> IF i > 0 THEN CrossFade ELSE 0, closed |-> FALSE])

\* clips after the first n passes of the loop
RECURSIVE Subclips(_, _)
Subclips(segments, n) == IF n = 0 THEN << >> ELSE LoopBody(Subclips(segments, n - 1), segments, n)

TrimEnvs == {"ok", "open_fails", "clip_fails", "join_fails", "write_fails"}

\* utils.trim_video_from_segments as far as the media library is concerned: whether it
\* returned True, the sub-clips it made, the handle of the source video ("none": never
\* opened) and whether the output was written.  env is where the library raises, if it
\* does: VideoFileClip, the last subclipped call, concatenate_videoclips or
\* write_videofile.  The handler closes the video alone; the success path closes all.
TrimRun(segments, video_exists, env) ==
    LET none == [ok |-> FALSE, clips |-> << >>, video |-> "none", written |-> FALSE]
        all == Subclips(segments, Len(segments))
    IN  IF Len(segments) = 0 THEN none
        ELSE IF ~video_exists \/ env = "open_fails" THEN none
        ELSE IF Len(all) = 0 THEN [none EXCEPT !.video = "open"]
        ELSE IF env = "clip_fails"
        THEN [none EXCEPT !.clips = SubSeq(all, 1, Len(all) - 1), !.video = "closed"]
        ELSE IF env \in {"join_fails", "write_fails"}
        THEN [none EXCEPT !.clips = all, !.video = "closed"]
        ELSE [ok |-> TRUE, clips |-> [c \in 1..Len(all) |-> [all[c] EXCEPT !.closed = TRUE]],
              video |-> "closed", written |-> TRUE]

\* refined_data.get("meaningful_segments", []) of the refined documents
SegmentsOf(doc) ==
    CASE doc = "obj"   -> <<Seg(0, 10), Seg(10, 13), Seg(20, 50)>>
      [] doc = "noseg" -> <<Seg(10, 13), OnlyStart(20)>>
      [] OTHER         -> << >>

\* utils.trim_video_from_segments(video_path, segments, output_path) on the files:
\* write_videofile goes through the temporary audio file 'temp-audio.m4a'
TrimVideoFromSegments(f, s, doc, env) ==
    LET out == P("out", s)
        r == TrimRun(SegmentsOf(doc), Exists(f, P("mp4", s)), env)
    IN  IF r.written
        THEN [ok |-> TRUE, fs |-> [f EXCEPT ![out] = "render"], touched |-> {TempAudio, out}]
        ELSE [ok |-> FALSE, fs |-> f,
              touched |-> IF env = "write_fails" /\ Len(r.clips) > 0 /\ r.video = "closed"
                          THEN {TempAudio, out} ELSE {}]

\* the cutter call and the else branch "Cutting failed"
S3Cut(s, env) ==
    /\ stage = 3
    /\ wk[s].pc = "cut"
    /\ Env(env # "ok")
    /\ LET r == TrimVideoFromSegments(fs, s, wk[s].doc, env)
           w == [Touch(wk[s], r.touched) EXCEPT !.cutter = TRUE, !.rendered = r.ok]
       IN IF r.ok
          THEN StepOther(s, [w EXCEPT !.pc = "archive"], r.fs)
          ELSE StepOther(s, Return(w, S3_CuttingFailed), r.fs)

\* path.rename(video_folder / path.name), guarded by path.exists()
Move(f, from, to) == IF Exists(f, from) THEN [f EXCEPT ![to] = f[from], ![from] = None] ELSE f

\* an archive step that left the transcript behind
MoveSources_SkipTranscript(f, s, fail_at) ==
    LET f1 == IF fail_at = 1 THEN f ELSE Move(f, P("mp4", s), P("pmp4", s))
        f3 == IF fail_at \in {1, 3} THEN f1 ELSE Move(f1, P("refined", s), P("prefined", s))
        raised == \/ fail_at = 1 /\ Exists(f, P("mp4", s))
                  \/ fail_at = 3 /\ Exists(f1, P("refined", s))
    IN [fs |-> f3, exc |-> raised]

\* the three guarded renames of the archive step, in order; fail_at = k: the k-th
\* rename raises (one that is skipped cannot), 0: none does
MoveSources(f, s, fail_at) ==
    LET f1 == IF fail_at = 1 THEN f ELSE Move(f, P("mp4", s), P("pmp4", s))
        f2 == IF fail_at \in {1, 2} THEN f1 ELSE Move(f1, P("json", s), P("pjson", s))
        f3 == IF fail_at \in {1, 2, 3} THEN f2 ELSE Move(f2, P("refined", s), P("prefined", s))
        raised == \/ fail_at = 1 /\ Exists(f, P("mp4", s))
                  \/ fail_at = 2 /\ Exists(f1, P("json", s))
                  \/ fail_at = 3 /\ Exists(f2, P("refined", s))
    IN [fs |-> f3, exc |-> raised]

\* an archive step whose renames had no try of their own
ArchiveSources_Unguarded(f, s, mkdir_ok, fail_at) ==
    IF ~mkdir_ok THEN [result |-> Stage3Except, fs |-> f, touched |-> {ProcessedDir(s)}]
    ELSE LET r == MoveSources(f, s, fail_at)
             moved == {p \in Paths : r.fs[p] # f[p]}
         IN [result |-> IF r.exc THEN Stage3Except ELSE S3_SuccessMoved,
             fs |-> r.fs, touched |-> {ProcessedDir(s)} \cup moved]

\* after a successful cut: video_folder.mkdir (inside the outer try only), then the
\* moves inside their own try
ArchiveSources(f, s, mkdir_ok, fail_at) ==
    IF ~mkdir_ok THEN [result |-> Stage3Except, fs |-> f, touched |-> {ProcessedDir(s)}]
    ELSE LET r == MoveSources(f, s, fail_at)
             moved == {p \in Paths : r.fs[p] # f[p]}
         IN [result |-> IF r.exc THEN S3_CutNotMoved ELSE S3_SuccessMoved,
             fs |-> r.fs, touched |-> {ProcessedDir(s)} \cup moved]

S3Archive(s, mkdir_ok, fail_at) ==
    /\ stage = 3
    /\ wk[s].pc = "archive"
    /\ Env(~mkdir_ok \/ fail_at # 0)
    /\ LET r == ArchiveSources(fs, s, mkdir_ok, fail_at)
       IN StepOther(s, Return(Touch(wk[s], r.touched), r.result), r.fs)

\* ------------------------------------------------------------------- Next
Next ==
    \/ \E st \in 1..3, m \in Modes, order \in UNION {[1..n -> Stems] : n \in 0..NumVideos} :
          \E cfg \in Configs(st) : StartRun(st, m, cfg, order)
    \/ \E s \in Stems : StartWorker(s)
    \/ \E s \in Stems, env \in ExtractEnvs(config.enable_audio_cleaning) : S1Extract(s, env)
    \/ \E s \in Stems, env \in TranscribeEnvs : S1Transcribe(s, env)
    \/ \E s \in Stems, removable \in BOOLEAN : S1Cleanup(s, removable)
    \/ \E s \in Stems, resp \in GeminiResponses : S2Refine(s, resp)
    \/ \E s \in Stems, mkdir_ok \in BOOLEAN : S3Begin(s, mkdir_ok)
    \/ \E s \in Stems, env \in TrimEnvs : S3Cut(s, env)
    \/ \E s \in Stems, mkdir_ok \in BOOLEAN, fail_at \in 0..3 : S3Archive(s, mkdir_ok, fail_at)
    \/ WriteResult

Spec == Init /\ [][Next]_vars

\* ------------------------------------------------- the functions on their own
\* One call of one function of utils.py, on arguments drawn from bounded sets.
MaxSegments == 3

SegmentPool == {Seg(0, 10), Seg(10, 13), Seg(20, 50), Seg(0, 5), Seg(0, 4), Seg(10, 0),
                OnlyStart(10), OnlyEnd(10), NoBounds}

SegmentSeqs == UNION {[1..n -> SegmentPool] : n \in 0..MaxSegments}

UnitsInit == Init /\ \A s \in Stems : ~Exists(fs, P("json", s))

\* trim_video_from_segments(video_path, segments, output_path) on an existing video
CallTrim(segments, env) ==
    /\ unit = NoUnit
    /\ unit' = [fn |-> "trim_video_from_segments", segments |-> segments, env |-> env,
                out |-> TrimRun(segments, TRUE, env)]
    /\ UNCHANGED pipeline

\* names an input directory can hold: a.json, a_refined.json, b.json, b_refined.json,
\* a.mp4, a_refined.mp4, a.json.bak, a_refined_v2.json, _refined.json
NamePool == {<<"a", ".json">>, <<"a", "_refined", ".json">>, <<"b", ".json">>,
             <<"b", "_refined", ".json">>, <<"a", ".mp4">>, <<"a", "_refined", ".mp4">>,
             <<"a", ".json", ".bak">>, <<"a", "_refined", "_v2", ".json">>,
             <<"_refined", ".json">>}

\* the Stage-2 file list of genai.py for a directory holding names
CallStage2Files(names) ==
    /\ unit = NoUnit
    /\ unit' = [fn |-> "stage2_files", names |-> names, out |-> Stage2Eligible(names)]
    /\ UNCHANGED pipeline

MaxTextLen == 3

Characters == GarbageGlyphs \cup Whitespace \cup {"a", "d"}

Texts == UNION {[1..n -> Characters] : n \in 0..MaxTextLen}

\* filter_hallucinations(text)
CallFilterHallucinations(text) ==
    /\ unit = NoUnit
    /\ unit' = [fn |-> "filter_hallucinations", text |-> text, out |-> FilterHallucinations(text)]
    /\ UNCHANGED pipeline

\* extract_audio(<stem>.mp4, <stem>.wav, enable_cleaning) on the first video
CallExtractAudio(enable_cleaning, env) ==
    /\ unit = NoUnit
    /\ unit' = [fn |-> "extract_audio", enable_cleaning |-> enable_cleaning, env |-> env,
                out |-> ExtractAudio(fs, 1, enable_cleaning, env)]
    /\ UNCHANGED pipeline

\* genai.process_file and Stage2Wrapper.process on the same transcript, key and answer
CallStage2Workers(level, api_key, resp) ==
    /\ unit = NoUnit
    /\ LET f == InitFs([s \in Stems |-> level]) IN
       unit' = [fn |-> "stage2_workers", level |-> level, api_key |-> api_key, resp |-> resp,
                script |-> GenaiProcessFile(f, 1, api_key, resp),
                wrapper |-> Stage2WrapperProcess(f, 1, api_key, resp)]
    /\ UNCHANGED pipeline

\* the refined document as video_cut.process_file and as Stage3Wrapper.process hold it
\* after loading the same <stem>_refined.json
CallStage3Load(data) ==
    /\ unit = NoUnit
    /\ unit' = [fn |-> "stage3_load", data |-> data,
                script |-> NormalizeList(data), wrapper |-> NoNormalize(data)]
    /\ UNCHANGED pipeline

UnitsNext ==
    \/ \E level \in InitLevels, api_key \in {"valid", "placeholder", "missing"},
          resp \in GeminiResponses : CallStage2Workers(level, api_key, resp)
    \/ \E data \in RefinedDocs : CallStage3Load(data)
    \/ \E enable_cleaning \in BOOLEAN :
          \E env \in ExtractEnvs(enable_cleaning) : CallExtractAudio(enable_cleaning, env)
    \/ \E segments \in SegmentSeqs, env \in TrimEnvs : CallTrim(segments, env)
    \/ \E names \in SUBSET NamePool : CallStage2Files(names)
    \/ \E text \in Texts : CallFilterHallucinations(text)

Units == UnitsInit /\ [][UnitsNext]_vars

\* ================================================================== claims
\* seen is the listing of the input directory when the current run globbed it (or when
\* the worker function was called directly): the files of a stem before its call.

ArchivedKind(k) == CASE k = "mp4" -> "pmp4" [] k = "json" -> "pjson" [] OTHER -> "prefined"

\* the last call that returned, when it is a call of stage st
Returned(st) == stage = st /\ last.stem # 0

\* Stage 3 had moved the video and both JSON files of s to processed/<stem>/ before the
\* current run listed the input directory
ArchivedBefore(s) ==
    /\ Exists(fs, P("pmp4", s))
    /\ \A k \in InputSources : seen[s][k] = None

\* C1: Stage 3 does nothing to a video whose <stem>_refined.json is absent: the
\* orchestrator does not submit it; the worker called on it never reaches the cutter or
\* the archive step, touches no path and leaves the files of the video as they were;
\* it returns 'Missing refined JSON'.
C1_NoRefinedNoCut ==
    \A s \in Stems : (stage = 3 /\ seen[s]["refined"] = None) =>
        /\ mode = "orchestrator" => s \notin Range(futures)
        /\ wk[s].pc \notin {"cut", "archive"}
        /\ wk[s].touched = {} /\ ~wk[s].cutter /\ ~wk[s].rendered
        /\ \A k \in InputSources : fs[P(k, s)] = seen[s][k]
        /\ wk[s].pc = "done" => wk[s].result = S3_Missing
        /\ last.stem = s => /\ last.call.result = S3_Missing
                            /\ last.call.touched = {} /\ ~last.call.cutter

C1_Witness ==
    /\ Returned(3) /\ mode = "script_call"
    /\ last.call.result = S3_Missing
    /\ seen[last.stem]["mp4"] # None /\ seen[last.stem]["refined"] = None

\* C2: every worker call of every stage returns one of its strings, whatever fails; no
\* exception reaches the orchestrator, which therefore prints the result of every file
\* it submitted.
C2_WorkersReturnStrings ==
    /\ \A s \in Stems : wk[s].pc = "done" => wk[s].result \in ErrorStrings \cup SuccessStrings
    /\ last.stem # 0 => last.call.result \in ErrorStrings \cup SuccessStrings
    /\ orch # "crashed"
    /\ orch = "done" => Range(printed) = Range(futures)

C2_Witness ==
    /\ mode = "orchestrator" /\ orch = "done" /\ Len(printed) = 2
    /\ \E s, t \in Range(printed) : wk[s].result = S3_Error /\ wk[t].result \in SuccessStrings

\* C3 (as claimed): with a valid credential and a parseable answer of the engine,
\* genai.process_file writes <stem>_refined.json next to <stem>.json and returns Success.
C3_RefineWritesRefined ==
    ( /\ Returned(2) /\ mode \in {"orchestrator", "script_call"}
      /\ config.gemini_api_key = "valid"
      /\ last.call.resp \in RefinedDocs
      /\ seen[last.stem]["json"] \in Docs )
    => /\ last.call.result = S2_Success
       /\ Exists(fs, P("refined", last.stem))
       /\ P("refined", last.stem) \in last.call.touched

\* C4 (as claimed): two workers of one stage that run at the same time on different
\* files have touched no common path.
C4_DisjointPaths ==
    \A s, t \in Stems :
        (s # t /\ Running(wk[s]) /\ Running(wk[t])) => wk[s].touched \cap wk[t].touched = {}

\* C5 (as claimed): an orchestrator submits no file its stage or a later one has
\* processed: Stage 1 no video whose <stem>.json exists, Stage 2 no transcript whose
\* <stem>_refined.json exists, and no stage anything of an archived video.
C5_SkipsProcessed ==
    mode = "orchestrator" => \A s \in Range(futures) :
        /\ stage = 1 => seen[s]["json"] = None
        /\ stage = 2 => seen[s]["refined"] = None
        /\ ~ArchivedBefore(s)

\* C5 (amended): Stage 1 submits every video, also one whose <stem>.json exists; Stage 2
\* submits every transcript not named *_refined.json, also one whose
\* <stem>_refined.json exists; Stage 3 submits the videos with a <stem>_refined.json;
\* and no stage submits anything of an archived video.
C5_SubmitsByFilterOnly ==
    mode = "orchestrator" =>
        /\ stage = 1 => Range(futures) = {s \in Stems : seen[s]["mp4"] # None}
        /\ stage = 2 => Range(futures) = {s \in Stems : seen[s]["json"] # None}
        /\ stage = 3 => Range(futures) =
                            {s \in Stems : seen[s]["mp4"] # None /\ seen[s]["refined"] # None}
        /\ \A s \in Stems : ArchivedBefore(s) => s \notin Range(futures)

C5_Witness ==
    /\ mode = "orchestrator" /\ stage = 1 /\ orch = "collecting"
    /\ \E s, t \in Stems :
          /\ ArchivedBefore(t) /\ Exists(fs, P("pjson", t)) /\ t \notin Range(futures)
          /\ s \in Range(futures) /\ seen[s]["json"] # None

\* C6 (as claimed): when the output video was rendered, the Stage-3 worker returns the
\* full-success string or 'Success (Cut), but failed to move files', whichever
\* archiving step fails.
C6_CutReportedSuccessful ==
    (Returned(3) /\ last.call.rendered)
    => last.call.result \in {S3_SuccessMoved, S3_CutNotMoved}

\* C7: when the Stage-3 worker returns full success, the video, <stem>.json and
\* <stem>_refined.json are gone from their paths, each that existed is in
\* processed/<stem>/ with its content, and the video is eligible neither for Stage 3
\* nor, by its transcript, for Stage 2.
C7_FullSuccessArchives ==
    \A s \in Stems : (stage = 3 /\ wk[s].result = S3_SuccessMoved) =>
        /\ \A k \in InputSources :
              /\ ~Exists(fs, P(k, s))
              /\ seen[s][k] # None => fs[P(ArchivedKind(k), s)] = seen[s][k]
        /\ \A p \in Stage3Files(fs) \cup Stage2Files(fs) : p[2] # s

C7_Witness ==
    /\ Returned(3) /\ last.call.result = S3_SuccessMoved
    /\ \A k \in InputSources :
          seen[last.stem][k] # None /\ Exists(fs, P(ArchivedKind(k), last.stem))

\* C8 (as claimed): results are printed in completion order: of two submitted files,
\* the one whose worker finished first is printed first.
C8_CompletionOrder ==
    \A a, b \in Range(printed) :
        (Pos(futures, a) < Pos(futures, b) /\ Pos(finished, b) < Pos(finished, a))
        => Pos(printed, b) < Pos(printed, a)

\* C9: transcribe_audio on an audio path whose valid cache exists returns the cached
\* document, loads no model, calls no engine and leaves the cache as it is; the second
\* of two such calls in a row returns what the first returned.
C9_CacheHit ==
    \A s \in Stems :
        /\ (stage = 1 /\ seen[s]["json"] \in Docs) =>
              /\ fs[P("json", s)] = seen[s]["json"]
              /\ ~wk[s].loaded /\ ~wk[s].invoked /\ P("json", s) \notin wk[s].touched
              /\ wk[s].pc = "cleanup" => wk[s].ret = seen[s]["json"]
              /\ wk[s].pc = "done" => wk[s].result # S1_FailedTranscribe
              /\ last.stem = s =>
                    /\ ~last.call.loaded /\ ~last.call.invoked
                    /\ P("json", s) \notin last.call.touched
                    /\ last.call.result = S1_Success => last.call.ret = seen[s]["json"]
        /\ cached[s].hits > 0 => cached[s].ret = cached[s].first

C9_Witness ==
    \E s \in Stems :
        /\ stage = 1 /\ wk[s].pc = "cleanup"
        /\ cached[s].hits = 2 /\ cached[s].ret = fs[P("json", s)]
        /\ ~wk[s].loaded /\ ~wk[s].invoked

\* C10: with a missing or placeholder gemini_api_key the Stage-2 worker returns an
\* error string for every file, creates no client, calls no engine and writes no
\* <stem>_refined.json.
C10_BadCredentialFailsFast ==
    (Returned(2) /\ config.gemini_api_key \in {"missing", "placeholder"})
    => /\ last.call.result \in {S2_Error, S2_NotFound}
       /\ ~last.call.client /\ ~last.call.invoked
       /\ last.call.touched = {}
       /\ fs[P("refined", last.stem)] = seen[last.stem]["refined"]

C10_Witness ==
    /\ Returned(2) /\ mode = "wrapper_call" /\ config.gemini_api_key = "placeholder"
    /\ last.call.result = S2_Error
    /\ seen[last.stem]["json"] \in Docs

\* ---- Segment Cutter
Trimmed == unit.fn = "trim_video_from_segments"

\* the loop over the segments ran to its end
LoopCompleted == Trimmed /\ unit.env \notin {"open_fails", "clip_fails"} /\ Len(unit.segments) > 0

\* has both bounds and lasts at least half a second
LongEnough(seg) ==
    /\ "start" \in DOMAIN seg /\ "end" \in DOMAIN seg
    /\ seg["end"] - seg["start"] >= MinDuration

AllDropped(segments) == \A n \in 1..Len(segments) : ~LongEnough(segments[n])

\* C11: the clips the Segment Cutter retains are exactly the segments that have both
\* bounds and end - start >= 0.5, in their original order.
C11_RetainsLongEnough ==
    LoopCompleted =>
        LET kept == SelectSeq(unit.segments, LongEnough)
            clips == unit.out.clips
        IN  /\ Len(clips) = Len(kept)
            /\ \A c \in 1..Len(clips) :
                  clips[c].start = kept[c]["start"] /\ clips[c].end = kept[c]["end"]

C11_Witness ==
    /\ Trimmed /\ unit.env = "ok"
    /\ unit.segments = <<Seg(0, 10), Seg(10, 13), Seg(20, 50)>>
    /\ Len(unit.out.clips) = 2
    /\ unit.out.clips[2].start = 20

\* C12: given an empty segment sequence, or one whose segments all lack a bound or last
\* less than 0.5 s, the Segment Cutter returns failure and writes no output file; the
\* Stage-3 worker returns 'Cutting failed', never reaches the archive step and leaves
\* the video and its JSON files where they were.
C12_NothingToCut ==
    /\ \A s \in Stems : (stage = 3 /\ wk[s].pc = "archive") => ~AllDropped(SegmentsOf(wk[s].doc))
    /\ (Returned(3) /\ last.call.cutter /\ AllDropped(SegmentsOf(last.call.doc))) =>
          /\ last.call.result = S3_CuttingFailed
          /\ ~last.call.rendered
          /\ last.call.touched = {}
          /\ \A k \in InputSources : fs[P(k, last.stem)] = seen[last.stem][k]

C12_Witness ==
    /\ Returned(3) /\ last.call.cutter
    /\ last.call.doc = "noseg"
    /\ last.call.result = S3_CuttingFailed
    /\ \A k \in InputSources : Exists(fs, P(k, last.stem))

\* C16 (as claimed): of the clips that survive the drop rule the first has no
\* cross-fade-in and every later one a cross-fade-in of 0.5 s, also when leading
\* segments were dropped.
C16_FirstClipNoFade ==
    LoopCompleted =>
        \A c \in 1..Len(unit.out.clips) :
            unit.out.clips[c].fade = IF c = 1 THEN 0 ELSE CrossFade

\* C17 (as claimed): when the Segment Cutter returns, the source video if it was opened
\* and every sub-clip it made are closed, on every exit path.
C17_HandlesClosed ==
    Trimmed =>
        /\ unit.out.video # "open"
        /\ \A c \in 1..Len(unit.out.clips) : unit.out.clips[c].closed

\* ---- Stage-2 eligibility
\* C13: the Stage-2 file list is exactly the names of the directory that end with .json
\* and not with _refined.json; of [a.json, a_refined.json, b.json] it is
\* [a.json, b.json]; no <stem>_refined.json is in it.
C13_Stage2Eligibility ==
    unit.fn = "stage2_files" =>
        /\ unit.out = {n \in unit.names :
                          /\ n[Len(n)] = ".json"
                          /\ ~(Len(n) >= 2 /\ n[Len(n) - 1] = "_refined")}
        /\ \A stem \in {"a", "b"} : <<stem, "_refined", ".json">> \notin unit.out

C13_Witness ==
    /\ unit.fn = "stage2_files"
    /\ unit.names = {<<"a", ".json">>, <<"a", "_refined", ".json">>, <<"b", ".json">>}
    /\ unit.out = {<<"a", ".json">>, <<"b", ".json">>}

\* ---- hallucination filter
\* C14: the filter returns the empty text for every text made only of whitespace and
\* the garbage glyphs, and the text itself for every text with any other character.
C14_FilterBlanksGarbageOnly ==
    unit.fn = "filter_hallucinations" =>
        IF \A n \in 1..Len(unit.text) : unit.text[n] \in {"d-dot-below", "omicron-psili", "space", "newline"}
        THEN unit.out = << >>
        ELSE unit.out = unit.text

C14_Witness ==
    /\ unit.fn = "filter_hallucinations"
    /\ unit.text = <<"space", "d-dot-below", "newline">>
    /\ unit.out = << >>

\* ---- Stage 1
\* C15 (as claimed): once the Stage-1 worker has returned after the extraction step
\* succeeded, <stem>.wav does not exist, whether transcription succeeded or failed.
C15_AudioDeleted ==
    (Returned(1) /\ last.call.result \in {S1_Success, S1_FailedTranscribe})
    => ~Exists(fs, P("wav", last.stem))

\* every attempt of the swap met a locked file
AllAttemptsFailed ==
    /\ unit.fn = "extract_audio" /\ unit.enable_cleaning
    /\ unit.env.extract /\ unit.env.filter
    /\ \A n \in 1..3 : unit.env.swap[n] \in {"locked_remove", "locked_rename"}

\* C18 (as claimed): with cleaning enabled the swap is attempted at most 3 times, and
\* when every attempt fails extract_audio returns success with the unfiltered audio at
\* the destination audio path.
C18_SwapKeepsUnfiltered ==
    /\ unit.fn = "extract_audio" => unit.out.tries <= 3
    /\ AllAttemptsFailed => unit.out.ok = "true" /\ unit.out.fs[P("wav", 1)] = "raw"

\* ---- Stage 2
\* C19 (as claimed): when the engine answers with a sequence, the persisted
\* <stem>_refined.json holds a single object (the first element, or the empty document)
\* and the Stage-2 worker reports success.
C19_SequenceNormalised ==
    ( /\ Returned(2) /\ mode = "wrapper_call"
      /\ config.gemini_api_key = "valid"
      /\ seen[last.stem]["json"] \in Docs
      /\ last.call.resp \in {"list", "emptylist"} )
    => /\ last.call.result = S2_Success
       /\ fs[P("refined", last.stem)] \in {"obj", "noseg", "empty"}

\* ---- transcript cache
\* C20 (as claimed): if <stem>.json exists, transcribe_audio returns its contents
\* whatever it holds: it loads no model, calls no engine and leaves the file as it is.
C20_CacheUnconditional ==
    \A s \in Stems : (stage = 1 /\ seen[s]["json"] # None) =>
        /\ ~wk[s].loaded /\ ~wk[s].invoked
        /\ fs[P("json", s)] = seen[s]["json"]
        /\ wk[s].pc = "cleanup" => wk[s].ret = seen[s]["json"]

\* C20 (amended): transcribe_audio returns the cache without loading the model, calling
\* the engine or writing the file only when <stem>.json parses and has a "language";
\* when the file is absent or unreadable it loads the model, transcribes, and, when it
\* returns, has replaced the file by the new transcript, which it returns.
C20_CacheOnlyIfReadable ==
    \A s \in Stems : (stage = 1 /\ wk[s].pc = "cleanup") =>
        IF seen[s]["json"] \in {"docA", "docB"}
        THEN /\ wk[s].ret = seen[s]["json"]
             /\ ~wk[s].loaded /\ ~wk[s].invoked
             /\ P("json", s) \notin wk[s].touched
        ELSE /\ wk[s].loaded /\ wk[s].invoked
             /\ P("json", s) \in wk[s].touched
             /\ wk[s].ret \in {"docA", "docB"}
             /\ fs[P("json", s)] = wk[s].ret

C20_Witness ==
    \E s \in Stems :
        /\ stage = 1 /\ wk[s].pc = "cleanup"
        /\ seen[s]["json"] = Corrupt
        /\ wk[s].loaded /\ wk[s].invoked
        /\ fs[P("json", s)] = "docA"

\* ---- stage markers
\* C21 (as claimed): Stage 1 writes <stem>.json only after the speech engine returned,
\* Stage 2 writes <stem>_refined.json only after the answer was parsed, and a worker
\* that returns an error or failure string has not created its stage's marker.
C21_MarkerOnlyOnSuccess ==
    /\ \A s \in Stems : (stage \in {1, 2} /\ wk[s].touched \cap {P("json", s), P("refined", s)} # {})
                            => wk[s].invoked
    /\ (Returned(1) /\ last.call.result \in ErrorStrings) =>
          ~(seen[last.stem]["json"] = None /\ Exists(fs, P("json", last.stem)))
    /\ (Returned(2) /\ last.call.result \in ErrorStrings) =>
          ~(seen[last.stem]["refined"] = None /\ Exists(fs, P("refined", last.stem)))

\* ---- Stage 3 frame
\* C22: when the Stage-3 worker returns 'Missing refined JSON', 'Error in Stage 3' or
\* 'Cutting failed', the video, <stem>.json and <stem>_refined.json are where they were
\* and the call moved nothing into processed/<stem>/.
C22_FailureMovesNothing ==
    (Returned(3) /\ last.call.result \in {S3_Missing, S3_Error, S3_CuttingFailed}) =>
        /\ \A k \in {"mp4", "json", "refined"} :
              /\ fs[P(k, last.stem)] = seen[last.stem][k]
              /\ P(k, last.stem) \notin last.call.touched
        /\ \A k \in {"pmp4", "pjson", "prefined"} : P(k, last.stem) \notin last.call.touched

C22_Witness ==
    /\ Returned(3) /\ last.call.result = S3_Error /\ last.call.rendered
    /\ \A k \in {"mp4", "json", "refined"} : Exists(fs, P(k, last.stem))
    /\ ~Exists(fs, P("pmp4", last.stem))

\* ---- script workers and wrappers
\* C23 (as claimed): on the same files, settings and engine outcome the script worker
\* and the utils wrapper of a stage return the same string and leave the same files.
C23_WorkersEquivalent ==
    unit.fn \in {"stage2_workers", "stage3_load"} => unit.script = unit.wrapper

====
